---- MODULE Spec2Model ----
(***************************************************************************)
(* A model of the job-management engine of ronakg/runner.                  *)
(*                                                                         *)
(*   pkg/lib/job.go      one job: StartJob, kill, Stop, Status, Output,    *)
(*                       waiter, outputWriter                              *)
(*   cmd/server          the ownership registry (safeJobs) and the RPC     *)
(*                       handlers Start / Stop / Status / Output           *)
(*                                                                         *)
(* Every goroutine is a process with a program counter; one action is one  *)
(* atomic step of its code (a channel operation, a syscall, one access to  *)
(* a shared cell).  The child process and the timer are the environment.   *)
(***************************************************************************)
EXTENDS Integers, Sequences, FiniteSets, TLC

\* ------------------------------------------------------------------ bounds
\* Bytes the child writes before it exits (byte k is the k-th one written).
MaxOut == 2
\* Stop() calls one caller makes in sequence.
MaxStops == 2
\* Bytes the child writes while callers wait for the job (SpecDrain).
MaxDrainOut == 1
\* The tailer's read buffer, scaled down from outputBufSize = 1024 (job.go:51).
BufSize == 1

\* Characters of a job id (24 hex characters in the program: 12 random bytes).
IdLen == 1
\* Jobs the registry holds.
MaxJobs == 2

\* ------------------------------------------------------------- identities
Stoppers == {"s1", "s2"}
Killers  == Stoppers \cup {"waiter"}
Tailers  == {"t1", "t2"}

\* JobStatus (the four states of runner.proto plus the internal Created).
StatusNone      == "None"
StatusCreated   == "Created"
StatusRunning   == "Running"
StatusCompleted == "Completed"
StatusStopped   == "Stopped"
StatusTimedOut  == "TimedOut"
Terminal == {StatusCompleted, StatusStopped, StatusTimedOut}

\* Strings are sequences of characters; "a" and "b" are hexadecimal digits, so
\* they occur in job ids as well as in Common Names.
Chars == {"a", "b"}
StringsOfLen(n) == [1..n -> Chars]
StringsUpTo(n) == UNION {StringsOfLen(k) : k \in 0..n}
\* The verified peer Common Names: none (the empty string), and two clients.
CNs == {<<>>, <<"a">>, <<"b", "a">>}

\* The longest job_id string a request carries: one character more than an id.
MaxReqLen == IdLen + 1

Commands == {"", "cmd"}
\* The step of StartJob that fails: none, generateJobID, createRootFSTree,
\* startOutputWriter, cmd.Start.
StartFailures == {"none", "id", "rootfs", "outfile", "fork"}
Timeouts == {0, 1}
ExitCodes == {0, 1}

VARIABLES
  \* ---- job (pkg/lib/job.go, struct job) ----
  started,           \* "no" | "ok" | "err": what StartJob returned
  config,            \* JobConfig
  status,            \* j.status (safeJobStatus)
  exitCode,          \* j.exitCode
  outputWriterDone,  \* the channel j.outputWriterDone is closed
  stopOnce,          \* j.stopOnce: "fresh" | "running" | "done"
  wg,                \* j.wg counter
  rootfs,            \* the per-job rootfs tree exists
  jobDir,            \* the directory <RunnerHome>/<id> exists
  outCreated,        \* the file <RunnerHome>/<id>/output.log exists
  outFile,           \* content of <RunnerHome>/<id>/output.log
  fileOpen,          \* the writer's handle on outFile is open
  \* ---- the child process and its pipes (environment) ----
  proc,              \* [state, how, code]
  wrote,             \* bytes the child has written so far
  so, se,            \* bytes in flight in the stdout / stderr pipe
  mr,                \* io.MultiReader position: 1 = stdout, 2 = stderr, 3 = EOF
  timerFired,        \* time.After(Timeout) has fired
  sigkills,          \* SIGKILLs dispatched to the process group
  other,             \* another job's child: "none", "running" with this job's old pid, "killed"
  killer,            \* the caller of kill that saw Running, or "none"
  \* ---- goroutines ----
  pc,                \* program counter of writer, waiter and each Stop caller
  stops,             \* Stop() calls each caller has returned from
  qpc, qst, obs,     \* a Status() caller: position, status read, last result
  \* ---- Output() tailers ----
  tpc,               \* position of each tailer goroutine
  toff,              \* offset of the tailer's handle on outFile
  delivered,         \* what the consumer has received from outChan so far
  events,            \* a modification event is queued at the tailer's watcher
  readOnceMore,      \* the tailer's readOnceMore flag
  canceled,          \* the channel canceled is closed
  userCanceled,      \* the caller has invoked cancel
  tfailed,           \* the tailer met a watcher error or a file read error
  receiving,         \* the consumer is still receiving from outChan
  fired,             \* times close(canceled) has been executed
  \* ---- the registry (cmd/server) ----
  table,             \* safeJobs.table: key string -> job
  jobs,              \* the jobs Start has started: [id, cn] of each
  rpc,               \* the last RPC served: request and response
  sbox               \* the child's sandbox entry: setup steps done, phase

jobVars  == <<started, config, status, exitCode, outputWriterDone, stopOnce, wg,
              rootfs, jobDir, outCreated, outFile, fileOpen, proc, wrote, so, se, mr, timerFired,
              sigkills, other, killer, pc, stops>>
statVars == <<qpc, qst, obs>>
tailVars == <<tpc, toff, delivered, events, readOnceMore, canceled,
              userCanceled, tfailed, receiving, fired>>
regVars  == <<table, jobs, rpc>>
boxVars  == <<sbox>>
vars     == <<jobVars, statVars, boxVars, tailVars, regVars>>

\* ---------------------------------------------------------------- helpers
IsPrefix(s, t) == Len(s) <= Len(t) /\ SubSeq(t, 1, Len(s)) = s
Min(a, b) == IF a <= b THEN a ELSE b

\* safeJobStatus: a lock-protected status cell.
Get(cell) == cell
Set(cell, v) == v
UpdateIf(cell, old, new) == IF cell = old THEN new ELSE cell

\* exec.ProcessState.ExitCode(): the exit status, or -1 when a signal ended it.
ProcessStateExitCode(p) == IF p.how = "signal" THEN -1 ELSE p.code


\* ------------------------------------------------------------------- Init
NoProc == [state |-> "none", how |-> "none", code |-> 0]
NoObs  == [st |-> StatusNone, ec |-> -1]
NoRpc  == [op |-> "none", cn |-> <<>>, jobId |-> <<>>, code |-> "none", job |-> 0]

InitJob ==
  /\ started = "no"
  /\ config = [command |-> "", timeout |-> 0]
  /\ status = StatusNone
  /\ exitCode = -1
  /\ outputWriterDone = FALSE
  /\ stopOnce = "fresh"
  /\ wg = 0
  /\ rootfs = FALSE
  /\ jobDir = FALSE
  /\ outCreated = FALSE
  /\ outFile = <<>>
  /\ fileOpen = FALSE
  /\ proc = NoProc
  /\ wrote = 0
  /\ so = <<>>
  /\ se = <<>>
  /\ mr = 1
  /\ timerFired = FALSE
  /\ sigkills = 0
  /\ other = "none"
  /\ killer = "none"
  /\ pc = [p \in Killers \cup {"writer"} |-> IF p \in Stoppers THEN "idle" ELSE "none"]
  /\ stops = [s \in Stoppers |-> 0]

InitStat ==
  /\ qpc = "idle"
  /\ qst = StatusNone
  /\ obs = NoObs

InitTail ==
  /\ tpc = [t \in Tailers |-> "none"]
  /\ toff = [t \in Tailers |-> 0]
  /\ delivered = [t \in Tailers |-> <<>>]
  /\ events = [t \in Tailers |-> FALSE]
  /\ readOnceMore = [t \in Tailers |-> TRUE]
  /\ canceled = [t \in Tailers |-> FALSE]
  /\ userCanceled = [t \in Tailers |-> FALSE]
  /\ tfailed = [t \in Tailers |-> FALSE]
  /\ receiving = [t \in Tailers |-> TRUE]
  /\ fired = [t \in Tailers |-> 0]

InitReg ==
  /\ table = <<>>
  /\ jobs = <<>>
  /\ rpc = NoRpc

InitBox == sbox = [phase |-> "setup", done |-> <<>>]

Init == InitJob /\ InitStat /\ InitTail /\ InitReg /\ InitBox

\* =============================================================== StartJob
\* What a step of StartJob leaves alone when it returns an error.
startRest == <<config, status, exitCode, outputWriterDone, stopOnce, wrote, so, se,
               mr, timerFired, sigkills, other, killer, stops>>

\* if config.Command == "" { return nil, errors.New(...) }; a failing
\* generateJobID returns the same way.
StartReject(err) ==
  /\ started' = err
  /\ UNCHANGED <<startRest, wg, rootfs, jobDir, outCreated, outFile, fileOpen, proc, pc>>

\* A validation that comes after the rootfs copy.
StartRejectLate(err) ==
  /\ started' = err
  /\ rootfs' = TRUE
  /\ jobDir' = TRUE
  /\ UNCHANGED <<startRest, wg, outCreated, outFile, fileOpen, proc, pc>>

\* j.createRootFSTree() fails: dirCopy.Copy may have copied nothing, or a part of
\* the tree; StartJob returns the error without removing what was copied.
StartFailRootFS(partial) ==
  /\ started' = "errRootfs"
  /\ rootfs' = partial
  /\ jobDir' = partial
  /\ UNCHANGED <<startRest, wg, outCreated, outFile, fileOpen, proc, pc>>

\* j.startOutputWriter() fails (a pipe, or os.Create of the output file): the
\* rootfs tree has been copied, no goroutine has been started.
StartFailOutFile ==
  /\ started' = "errOutfile"
  /\ rootfs' = TRUE
  /\ jobDir' = TRUE
  /\ UNCHANGED <<startRest, wg, outCreated, outFile, fileOpen, proc, pc>>

\* j.cmd.Start() fails: the output file exists and the writer goroutine is
\* running (exec has closed the pipes, so its io.Copy ends); no waiter is
\* started.
StartFailFork ==
  /\ started' = "errFork"
  /\ rootfs' = TRUE
  /\ jobDir' = TRUE
  /\ outCreated' = TRUE
  /\ outFile' = <<>>
  /\ fileOpen' = TRUE
  /\ wg' = 1
  /\ pc' = [pc EXCEPT !["writer"] = "copy"]
  /\ UNCHANGED <<startRest, proc>>

\* StartJob(config) with no failure: job construction, rootfs copy, output file
\* and writer goroutine, fork, status Running, waiter goroutine.
StartOk(command, timeout) ==
  /\ started' = "ok"
  /\ config' = [command |-> command, timeout |-> timeout]
  /\ exitCode' = -1
  /\ outputWriterDone' = FALSE
  /\ rootfs' = TRUE
  /\ jobDir' = TRUE
  /\ outCreated' = TRUE
  /\ outFile' = <<>>
  /\ fileOpen' = TRUE
  /\ proc' = [state |-> "running", how |-> "none", code |-> 0]
  /\ status' = Set(StatusCreated, StatusRunning)
  /\ wg' = 2
  /\ pc' = [pc EXCEPT !["writer"] = "copy", !["waiter"] = "w_start"]
  /\ UNCHANGED <<stopOnce, wrote, so, se, mr, timerFired, sigkills, other, killer, stops>>

\* StartJob with the check of the command placed after the rootfs copy.
StartJobLateCheck(command, timeout, fail) ==
  /\ started = "no"
  /\ IF command = "" THEN StartRejectLate("err")
     ELSE StartOk(command, timeout)
  /\ UNCHANGED <<statVars, boxVars, tailVars, regVars>>

\* StartJob(config); fail names the step that fails, if any.
StartJob(command, timeout, fail) ==
  /\ started = "no"
  /\ IF command = "" THEN StartReject("err")
     ELSE CASE fail = "id" -> StartReject("errID")
            [] fail = "rootfs" -> \E partial \in BOOLEAN : StartFailRootFS(partial)
            [] fail = "outfile" -> StartFailOutFile
            [] fail = "fork" -> StartFailFork
            [] OTHER -> StartOk(command, timeout)
  /\ UNCHANGED <<statVars, boxVars, tailVars, regVars>>

\* ------------------------------------------- StartJob, statement by statement
\* The successful StartJob in the steps another goroutine or the child can come
\* between; `started` is where StartJob is: "new", "rootfs", "forked", "running"
\* and, once it has returned the job, "ok".
\* generateJobID and j := &job{..., status: StatusCreated, exitCode: -1, ...}
StartNew(command, timeout) ==
  /\ started = "no"
  /\ command # ""
  /\ started' = "new"
  /\ config' = [command |-> command, timeout |-> timeout]
  /\ status' = StatusCreated
  /\ exitCode' = -1
  /\ outputWriterDone' = FALSE
  /\ UNCHANGED <<stopOnce, wg, rootfs, jobDir, outCreated, outFile, fileOpen, proc,
                 wrote, so, se, mr, timerFired, sigkills, other, killer, pc, stops,
                 statVars, boxVars, tailVars, regVars>>

\* j.createRootFSTree()
StartRootFS ==
  /\ started = "new"
  /\ started' = "rootfs"
  /\ rootfs' = TRUE
  /\ jobDir' = TRUE
  /\ UNCHANGED <<config, status, exitCode, outputWriterDone, stopOnce, wg, outCreated,
                 outFile, fileOpen, proc, wrote, so, se, mr, timerFired, sigkills,
                 other, killer, pc, stops, statVars, boxVars, tailVars, regVars>>

\* A StartJob that starts the waiter right after the fork.
StartForkGoWaiter ==
  /\ started = "rootfs"
  /\ started' = "forked"
  /\ outCreated' = TRUE
  /\ outFile' = <<>>
  /\ fileOpen' = TRUE
  /\ wg' = wg + 2
  /\ pc' = [pc EXCEPT !["writer"] = "copy", !["waiter"] = "w_start"]
  /\ proc' = [state |-> "running", how |-> "none", code |-> 0]
  /\ UNCHANGED <<config, status, exitCode, outputWriterDone, stopOnce, rootfs, jobDir,
                 wrote, so, se, mr, timerFired, sigkills, other, killer, stops,
                 statVars, boxVars, tailVars, regVars>>

\* j.startOutputWriter() and j.cmd.Start(): the output file, the pipes, the
\* writer goroutine (which can only block in its first read until the child
\* exists, the parent holding the pipes' write ends) and the fork.
StartFork ==
  /\ started = "rootfs"
  /\ started' = "forked"
  /\ outCreated' = TRUE
  /\ outFile' = <<>>
  /\ fileOpen' = TRUE
  /\ wg' = wg + 1
  /\ pc' = [pc EXCEPT !["writer"] = "copy"]
  /\ proc' = [state |-> "running", how |-> "none", code |-> 0]
  /\ UNCHANGED <<config, status, exitCode, outputWriterDone, stopOnce, rootfs, jobDir,
                 wrote, so, se, mr, timerFired, sigkills, other, killer, stops,
                 statVars, boxVars, tailVars, regVars>>

\* j.status.Set(StatusRunning)
StartSetRunning ==
  /\ started = "forked"
  /\ started' = "running"
  /\ status' = Set(status, StatusRunning)
  /\ UNCHANGED <<config, exitCode, outputWriterDone, stopOnce, wg, rootfs, jobDir,
                 outCreated, outFile, fileOpen, proc, wrote, so, se, mr, timerFired,
                 sigkills, other, killer, pc, stops, statVars, boxVars, tailVars,
                 regVars>>

\* j.wg.Add(1); go j.waiter(); return j, nil
StartGoWaiter ==
  /\ started = "running"
  /\ started' = "ok"
  /\ wg' = wg + 1
  /\ pc' = [pc EXCEPT !["waiter"] = "w_start"]
  /\ UNCHANGED <<config, status, exitCode, outputWriterDone, stopOnce, rootfs, jobDir,
                 outCreated, outFile, fileOpen, proc, wrote, so, se, mr, timerFired,
                 sigkills, other, killer, stops, statVars, boxVars, tailVars,
                 regVars>>

\* ============================================================ environment
\* The child appends one byte to its stdout (fd = 1) or stderr (fd = 2).
ChildWrite(fd) ==
  /\ proc.state = "running"
  /\ wrote < MaxOut
  /\ wrote' = wrote + 1
  /\ IF fd = 1 THEN so' = Append(so, wrote + 1) /\ se' = se
               ELSE se' = Append(se, wrote + 1) /\ so' = so
  /\ UNCHANGED <<started, config, status, exitCode, outputWriterDone, stopOnce, wg,
                 rootfs, jobDir, outCreated, outFile, fileOpen, proc, mr, timerFired, sigkills, other, killer,
                 pc, stops, statVars, boxVars, tailVars, regVars>>

\* The child (the shell) exits on its own with status code; its pipes' write ends
\* close.
ChildExit(code) ==
  /\ proc.state = "running"
  /\ proc' = [state |-> "zombie", how |-> "exit", code |-> code]
  /\ UNCHANGED <<started, config, status, exitCode, outputWriterDone, stopOnce, wg,
                 rootfs, jobDir, outCreated, outFile, fileOpen, wrote, so, se, mr, timerFired, sigkills, other,
                 killer, pc, stops, statVars, boxVars, tailVars, regVars>>

\* ------------------------------------------------- the sandbox entry
\* rootFSSetup's calls in the order of its statements: syscall.Mount (bind),
\* os.MkdirAll (old_root), syscall.PivotRoot, syscall.Chdir, syscall.Mount
\* (proc), syscall.Unmount (old_root), os.RemoveAll (old_root).
SetupSteps == <<"bind", "mkdir", "pivot_root", "chdir", "proc", "unmount", "remove">>

\* A rootFSSetup that goes on to its next call when a call has failed.
BoxStepIgnoreError(ok) ==
  /\ proc.state = "running"
  /\ sbox.phase \in {"setup", "failed"}
  /\ Len(sbox.done) < Len(SetupSteps)
  /\ sbox' = [phase |-> IF ok THEN sbox.phase ELSE "failed",
              done |-> Append(sbox.done, SetupSteps[Len(sbox.done) + 1])]
  /\ UNCHANGED <<jobVars, statVars, tailVars, regVars>>

\* The child, as reExecHandler in rootFSSetup, makes its next call.  When the
\* call returns an error rootFSSetup returns it, and reExecHandler prints a
\* message on its stdout (byte 0 here) and calls os.Exit(1).
BoxStep(ok) ==
  /\ proc.state = "running"
  /\ sbox.phase = "setup"
  /\ Len(sbox.done) < Len(SetupSteps)
  /\ IF ok
       THEN /\ sbox' = [sbox EXCEPT !.done = Append(@, SetupSteps[Len(@) + 1])]
            /\ UNCHANGED <<so, proc>>
       ELSE /\ sbox' = [sbox EXCEPT !.phase = "failed"]
            /\ so' = Append(so, 0)
            /\ proc' = [state |-> "zombie", how |-> "exit", code |-> 1]
  /\ UNCHANGED <<started, config, status, exitCode, outputWriterDone, stopOnce, wg,
                 rootfs, jobDir, outCreated, outFile, fileOpen, wrote, se, mr,
                 timerFired, sigkills, other, killer, pc, stops, statVars, tailVars,
                 regVars>>

\* rootFSSetup has returned nil: exec.Command("/bin/sh", "-c", command), cmd.Run().
BoxExec ==
  /\ proc.state = "running"
  /\ sbox.phase = "setup"
  /\ Len(sbox.done) = Len(SetupSteps)
  /\ sbox' = [sbox EXCEPT !.phase = "exec"]
  /\ UNCHANGED <<jobVars, statVars, tailVars, regVars>>

\* The user's command, run by the shell, writes and exits.
BoxChildWrite(fd) == sbox.phase = "exec" /\ ChildWrite(fd)
BoxChildExit(code) == sbox.phase = "exec" /\ ChildExit(code)

\* StartJob of another job, after this job's child was reaped: the kernel may
\* give the new child the pid that has become free (Setpgid makes it the id of
\* the new child's process group as well).
OtherJobStart ==
  /\ proc.state = "reaped"
  /\ other = "none"
  /\ other' = "running"
  /\ UNCHANGED <<started, config, status, exitCode, outputWriterDone, stopOnce, wg,
                 rootfs, jobDir, outCreated, outFile, fileOpen, proc, wrote, so, se,
                 mr, timerFired, sigkills, killer, pc, stops, statVars, boxVars, tailVars,
                 regVars>>

\* time.After(j.config.Timeout) fires while the waiter is in its select.
TimerFire ==
  /\ pc["waiter"] = "w_select"
  /\ ~timerFired
  /\ timerFired' = TRUE
  /\ UNCHANGED <<started, config, status, exitCode, outputWriterDone, stopOnce, wg,
                 rootfs, jobDir, outCreated, outFile, fileOpen, proc, wrote, so, se, mr, sigkills, other, killer,
                 pc, stops, statVars, boxVars, tailVars, regVars>>

\* ========================================================== outputWriter
\* A write to outFile queues a modification event at every installed watcher; an
\* event equal to the one still unread is coalesced with it.
Watching(t) == tpc[t] \in {"read", "send", "select"}
Notify == [t \in Tailers |-> Watching(t) \/ events[t]]

\* io.Copy(f, io.MultiReader(so, se)): one Read of the current pipe and the Write
\* of what it returned; a pipe is at EOF when it is empty and the child is gone.
WriterCopy ==
  /\ pc["writer"] = "copy"
  /\ \/ /\ mr = 1 /\ so # <<>>
        /\ outFile' = outFile \o so /\ so' = <<>> /\ events' = Notify
        /\ UNCHANGED <<se, mr, pc>>
     \/ /\ mr = 1 /\ so = <<>> /\ proc.state # "running"
        /\ mr' = 2
        /\ UNCHANGED <<outFile, so, se, events, pc>>
     \/ /\ mr = 2 /\ se # <<>>
        /\ outFile' = outFile \o se /\ se' = <<>> /\ events' = Notify
        /\ UNCHANGED <<so, mr, pc>>
     \/ /\ mr = 2 /\ se = <<>> /\ proc.state # "running"
        /\ mr' = 3 /\ pc' = [pc EXCEPT !["writer"] = "closeFile"]
        /\ UNCHANGED <<outFile, so, se, events>>
  /\ UNCHANGED <<started, config, status, exitCode, outputWriterDone, stopOnce, wg,
                 rootfs, jobDir, outCreated, fileOpen, proc, wrote, timerFired, sigkills, other, killer, stops,
                 statVars, boxVars, regVars,
                 tpc, toff, delivered, readOnceMore, canceled, fired,
                 userCanceled, receiving, tfailed>>

\* io.Copy returns an error other than io.EOF (a failed Read of a pipe or Write
\* of the file): it is logged and outputWriter returns through its defers.  What
\* is left in the pipes is never copied.
WriterCopyFail ==
  /\ pc["writer"] = "copy"
  /\ pc' = [pc EXCEPT !["writer"] = "closeFile"]
  /\ UNCHANGED <<started, config, status, exitCode, outputWriterDone, stopOnce, wg,
                 rootfs, jobDir, outCreated, outFile, fileOpen, proc, wrote, so, se, mr,
                 timerFired, sigkills, other, killer, stops, statVars, boxVars, tailVars, regVars>>

\* A writer whose deferred function signals without closing the file.
WriterCloseFileSkip ==
  /\ pc["writer"] = "closeFile"
  /\ pc' = [pc EXCEPT !["writer"] = "signalDone"]
  /\ UNCHANGED <<started, config, status, exitCode, outputWriterDone, stopOnce, wg,
                 rootfs, jobDir, outCreated, outFile, fileOpen, proc, wrote, so, se, mr,
                 timerFired, sigkills, other, killer, stops, statVars, boxVars, tailVars, regVars>>

\* defer f.Close()
WriterCloseFile ==
  /\ pc["writer"] = "closeFile"
  /\ fileOpen' = FALSE
  /\ pc' = [pc EXCEPT !["writer"] = "signalDone"]
  /\ UNCHANGED <<started, config, status, exitCode, outputWriterDone, stopOnce, wg,
                 rootfs, jobDir, outCreated, outFile, proc, wrote, so, se, mr, timerFired, sigkills, other,
                 killer, stops, statVars, boxVars, tailVars, regVars>>

\* defer close(j.outputWriterDone)
WriterSignalDone ==
  /\ pc["writer"] = "signalDone"
  /\ outputWriterDone' = TRUE
  /\ pc' = [pc EXCEPT !["writer"] = "wgDone"]
  /\ UNCHANGED <<started, config, status, exitCode, stopOnce, wg, rootfs, jobDir, outCreated, outFile,
                 fileOpen, proc, wrote, so, se, mr, timerFired, sigkills, other, killer,
                 stops, statVars, boxVars, tailVars, regVars>>

\* A writer that returns without j.wg.Done().
WriterWgDoneSkip ==
  /\ pc["writer"] = "wgDone"
  /\ pc' = [pc EXCEPT !["writer"] = "done"]
  /\ UNCHANGED <<started, config, status, exitCode, outputWriterDone, stopOnce, wg,
                 rootfs, jobDir, outCreated, outFile, fileOpen, proc, wrote, so, se, mr, timerFired,
                 sigkills, other, killer, stops, statVars, boxVars, tailVars, regVars>>

\* defer j.wg.Done()
WriterWgDone ==
  /\ pc["writer"] = "wgDone"
  /\ wg' = wg - 1
  /\ pc' = [pc EXCEPT !["writer"] = "done"]
  /\ UNCHANGED <<started, config, status, exitCode, outputWriterDone, stopOnce,
                 rootfs, jobDir, outCreated, outFile, fileOpen, proc, wrote, so, se, mr, timerFired,
                 sigkills, other, killer, stops, statVars, boxVars, tailVars, regVars>>

\* ================================================================== kill
\* Where a caller of kill continues: Stop goes on to j.wg.Wait(), the waiter to
\* <-j.outputWriterDone.
After(self) == IF self = "waiter" THEN "w_waitDone" ELSE "wgWait"
\* The status kill is asked to set: Stop passes StatusStopped, the waiter
\* StatusTimedOut.
KillArg(self) == IF self = "waiter" THEN StatusTimedOut ELSE StatusStopped

jobRest == <<started, config, exitCode, outputWriterDone, wg, rootfs, jobDir, outCreated, outFile,
             fileOpen, wrote, so, se, mr, timerFired, stops>>

\* kill without the Once: every caller runs the function.
KillEnterNoOnce(self) ==
  /\ pc[self] = "kill"
  /\ stopOnce' = "running"
  /\ pc' = [pc EXCEPT ![self] = "killGet"]
  /\ UNCHANGED <<jobRest, status, proc, sigkills, other, killer, statVars, boxVars, tailVars, regVars>>

\* j.stopOnce.Do(f): the first caller runs f; a caller that finds the Once
\* running blocks until f has returned; a later caller skips f.
KillEnter(self) ==
  /\ pc[self] = "kill"
  /\ stopOnce = "fresh"
  /\ stopOnce' = "running"
  /\ pc' = [pc EXCEPT ![self] = "killGet"]
  /\ UNCHANGED <<jobRest, status, proc, sigkills, other, killer, statVars, boxVars, tailVars, regVars>>

KillSkip(self) ==
  /\ pc[self] = "kill"
  /\ stopOnce = "done"
  /\ pc' = [pc EXCEPT ![self] = After(self)]
  /\ UNCHANGED <<jobRest, status, proc, sigkills, other, killer, stopOnce, statVars, boxVars,
                 tailVars, regVars>>

\* if j.status.Get() == StatusRunning
KillGet(self) ==
  /\ pc[self] = "killGet"
  /\ IF Get(status) = StatusRunning
       THEN /\ pc' = [pc EXCEPT ![self] = "killSig"]
            /\ killer' = self
            /\ UNCHANGED stopOnce
       ELSE /\ pc' = [pc EXCEPT ![self] = After(self)]
            /\ stopOnce' = "done"
            /\ UNCHANGED killer
  /\ UNCHANGED <<jobRest, status, proc, sigkills, other, statVars, boxVars, tailVars, regVars>>

\* kill without the syscall: no signal is sent.
KillSigNoSignal(self) ==
  /\ pc[self] = "killSig"
  /\ pc' = [pc EXCEPT ![self] = "killSet"]
  /\ UNCHANGED <<jobRest, status, proc, sigkills, other, stopOnce, killer, statVars, boxVars, tailVars,
                 regVars>>

\* syscall.Kill(-pid, SIGKILL): ends a running process group (its wait status is
\* "signaled"); a group that has already exited is left as it is.  Once the
\* child is reaped its pid is free, and the signal goes to whichever process
\* group has that id by then.
KillSig(self) ==
  /\ pc[self] = "killSig"
  /\ sigkills' = sigkills + 1
  /\ other' = IF proc.state = "reaped" /\ other = "running" THEN "killed" ELSE other
  /\ proc' = IF proc.state = "running"
               THEN [state |-> "zombie", how |-> "signal", code |-> 0]
               ELSE proc
  /\ pc' = [pc EXCEPT ![self] = "killSet"]
  /\ UNCHANGED <<jobRest, status, stopOnce, killer, statVars, boxVars, tailVars, regVars>>

\* A kill that returns when the syscall has failed, leaving the status alone.
KillSigFailReturn(self) ==
  /\ pc[self] = "killSig"
  /\ stopOnce' = "done"
  /\ pc' = [pc EXCEPT ![self] = After(self)]
  /\ UNCHANGED <<jobRest, status, proc, sigkills, other, killer, statVars, boxVars, tailVars,
                 regVars>>

\* syscall.Kill returns an error (ESRCH, EPERM): no signal is delivered, the
\* error is logged and kill goes on to set the status.
KillSigFail(self) ==
  /\ pc[self] = "killSig"
  /\ pc' = [pc EXCEPT ![self] = "killSet"]
  /\ UNCHANGED <<jobRest, status, proc, sigkills, other, stopOnce, killer, statVars, boxVars,
                 tailVars, regVars>>

\* j.status.Set(status), and the Once's function returns.
KillSet(self) ==
  /\ pc[self] = "killSet"
  /\ status' = Set(status, KillArg(self))
  /\ stopOnce' = "done"
  /\ pc' = [pc EXCEPT ![self] = After(self)]
  /\ UNCHANGED <<jobRest, proc, sigkills, other, killer, statVars, boxVars, tailVars, regVars>>

\* ================================================================== Stop
\* Stop(): j.kill(StatusStopped) ...
StopCall(s) ==
  /\ started = "ok"
  /\ pc[s] = "idle"
  /\ stops[s] < MaxStops
  /\ pc' = [pc EXCEPT ![s] = "kill"]
  /\ UNCHANGED <<jobRest, status, proc, sigkills, other, killer, stopOnce, statVars, boxVars,
                 tailVars, regVars>>

\* Stop without j.wg.Wait(): it returns right after kill.
StopNoWait(s) ==
  /\ pc[s] = "wgWait"
  /\ pc' = [pc EXCEPT ![s] = "idle"]
  /\ stops' = [stops EXCEPT ![s] = @ + 1]
  /\ UNCHANGED <<started, config, exitCode, outputWriterDone, wg, rootfs, jobDir, outCreated, outFile,
                 fileOpen, wrote, so, se, mr, timerFired, status, proc, sigkills, other,
                 killer, stopOnce, statVars, boxVars, tailVars, regVars>>

\* ... j.wg.Wait(), and Stop returns.
StopWait(s) ==
  /\ pc[s] = "wgWait"
  /\ wg = 0
  /\ pc' = [pc EXCEPT ![s] = "idle"]
  /\ stops' = [stops EXCEPT ![s] = @ + 1]
  /\ UNCHANGED <<started, config, exitCode, outputWriterDone, wg, rootfs, jobDir, outCreated, outFile,
                 fileOpen, wrote, so, se, mr, timerFired, status, proc, sigkills, other,
                 killer, stopOnce, statVars, boxVars, tailVars, regVars>>

\* Wait(): j.wg.Wait().  The caller is at the wait a Stop caller is at after its
\* kill, and returns from it the same way (StopWait).  A caller calls it once.
WaitCall(s) ==
  /\ started = "ok"
  /\ pc[s] = "idle"
  /\ stops[s] = 0
  /\ pc' = [pc EXCEPT ![s] = "wgWait"]
  /\ UNCHANGED <<jobRest, status, proc, sigkills, other, killer, stopOnce, statVars, boxVars,
                 tailVars, regVars>>

\* ================================================================ waiter
waiterRest == <<started, config, outputWriterDone, stopOnce, outFile, fileOpen,
                wrote, so, se, mr, timerFired, sigkills, other, killer, stops>>

\* The waiter without <-j.outputWriterDone and j.cmd.Wait(): it goes straight to
\* its bookkeeping.
WaiterStartNoWait ==
  /\ pc["waiter"] = "w_start"
  /\ pc' = [pc EXCEPT !["waiter"] = "w_updateIf"]
  /\ UNCHANGED <<waiterRest, status, exitCode, wg, rootfs, jobDir, outCreated, proc, statVars, boxVars, tailVars, regVars>>

\* The waiter that enters the select whatever the timeout is.
WaiterStartAlwaysSelect ==
  /\ pc["waiter"] = "w_start"
  /\ pc' = [pc EXCEPT !["waiter"] = "w_select"]
  /\ UNCHANGED <<waiterRest, status, exitCode, wg, rootfs, jobDir, outCreated, proc, statVars, boxVars, tailVars, regVars>>

\* A waiter that removes the rootfs tree first.
WaiterStartRemoveRootFS ==
  /\ pc["waiter"] = "w_start"
  /\ rootfs' = FALSE
  /\ pc' = [pc EXCEPT !["waiter"] = IF config.timeout > 0 THEN "w_select" ELSE "w_waitDone"]
  /\ UNCHANGED <<waiterRest, status, exitCode, wg, jobDir, outCreated, proc, statVars, boxVars, tailVars, regVars>>

\* defer j.wg.Done(); if j.config.Timeout > 0 { select ... }
WaiterStart ==
  /\ pc["waiter"] = "w_start"
  /\ pc' = [pc EXCEPT !["waiter"] = IF config.timeout > 0 THEN "w_select" ELSE "w_waitDone"]
  /\ UNCHANGED <<waiterRest, status, exitCode, wg, rootfs, jobDir, outCreated, proc, statVars, boxVars, tailVars, regVars>>

\* case <-time.After(j.config.Timeout): j.kill(StatusTimedOut)
WaiterSelectTimer ==
  /\ pc["waiter"] = "w_select"
  /\ timerFired
  /\ pc' = [pc EXCEPT !["waiter"] = "kill"]
  /\ UNCHANGED <<waiterRest, status, exitCode, wg, rootfs, jobDir, outCreated, proc, statVars, boxVars, tailVars, regVars>>

\* case <-j.outputWriterDone:
WaiterSelectDone ==
  /\ pc["waiter"] = "w_select"
  /\ outputWriterDone
  /\ pc' = [pc EXCEPT !["waiter"] = "w_waitDone"]
  /\ UNCHANGED <<waiterRest, status, exitCode, wg, rootfs, jobDir, outCreated, proc, statVars, boxVars, tailVars, regVars>>

\* A waiter that goes on to cmd.Wait without waiting for the writer.
WaiterWaitDoneNoBlock ==
  /\ pc["waiter"] = "w_waitDone"
  /\ pc' = [pc EXCEPT !["waiter"] = "w_cmdWait"]
  /\ UNCHANGED <<waiterRest, status, exitCode, wg, rootfs, jobDir, outCreated, proc, statVars, boxVars, tailVars, regVars>>

\* <-j.outputWriterDone
WaiterWaitDone ==
  /\ pc["waiter"] = "w_waitDone"
  /\ outputWriterDone
  /\ pc' = [pc EXCEPT !["waiter"] = "w_cmdWait"]
  /\ UNCHANGED <<waiterRest, status, exitCode, wg, rootfs, jobDir, outCreated, proc, statVars, boxVars, tailVars, regVars>>

\* A waiter that stores the exit code as soon as it has reaped the child, before
\* the status is updated.
WaiterCmdWaitStore ==
  /\ pc["waiter"] = "w_cmdWait"
  /\ proc.state = "zombie"
  /\ proc' = [proc EXCEPT !.state = "reaped"]
  /\ exitCode' = ProcessStateExitCode(proc)
  /\ pc' = [pc EXCEPT !["waiter"] = "w_updateIf"]
  /\ UNCHANGED <<waiterRest, status, wg, rootfs, jobDir, outCreated, statVars, boxVars, tailVars,
                 regVars>>

\* j.cmd.Wait(): blocks until the child has ended, and reaps it.
WaiterCmdWait ==
  /\ pc["waiter"] = "w_cmdWait"
  /\ proc.state = "zombie"
  /\ proc' = [proc EXCEPT !.state = "reaped"]
  /\ pc' = [pc EXCEPT !["waiter"] = "w_updateIf"]
  /\ UNCHANGED <<waiterRest, status, exitCode, wg, rootfs, jobDir, outCreated, statVars, boxVars, tailVars, regVars>>

\* j.status.UpdateIf(StatusRunning, StatusCompleted)
WaiterUpdateIf ==
  /\ pc["waiter"] = "w_updateIf"
  /\ status' = UpdateIf(status, StatusRunning, StatusCompleted)
  /\ pc' = [pc EXCEPT !["waiter"] = "w_storeExit"]
  /\ UNCHANGED <<waiterRest, exitCode, wg, rootfs, jobDir, outCreated, proc, statVars, boxVars, tailVars, regVars>>

\* The waiter without the store of the exit code.
WaiterStoreExitSkip ==
  /\ pc["waiter"] = "w_storeExit"
  /\ pc' = [pc EXCEPT !["waiter"] = "w_rmRootFS"]
  /\ UNCHANGED <<waiterRest, exitCode, status, wg, rootfs, jobDir, outCreated, proc, statVars, boxVars, tailVars, regVars>>

\* atomic.StoreInt32(&j.exitCode, int32(j.cmd.ProcessState.ExitCode()))
WaiterStoreExit ==
  /\ pc["waiter"] = "w_storeExit"
  /\ exitCode' = ProcessStateExitCode(proc)
  /\ pc' = [pc EXCEPT !["waiter"] = "w_rmRootFS"]
  /\ UNCHANGED <<waiterRest, status, wg, rootfs, jobDir, outCreated, proc, statVars, boxVars, tailVars, regVars>>

\* j.deleteRootFSTree()
WaiterDeleteRootFS ==
  /\ pc["waiter"] = "w_rmRootFS"
  /\ rootfs' = FALSE
  /\ pc' = [pc EXCEPT !["waiter"] = "w_wgDone"]
  /\ UNCHANGED <<waiterRest, status, exitCode, wg, proc, jobDir, outCreated, statVars, boxVars,
                 tailVars, regVars>>

\* j.deleteRootFSTree() returns an error: it is logged, the tree stays.
WaiterDeleteRootFSFail ==
  /\ pc["waiter"] = "w_rmRootFS"
  /\ pc' = [pc EXCEPT !["waiter"] = "w_wgDone"]
  /\ UNCHANGED <<waiterRest, status, exitCode, wg, proc, rootfs, jobDir, outCreated,
                 statVars, boxVars, tailVars, regVars>>

\* the deferred j.wg.Done()
WaiterWgDone ==
  /\ pc["waiter"] = "w_wgDone"
  /\ wg' = wg - 1
  /\ pc' = [pc EXCEPT !["waiter"] = "done"]
  /\ UNCHANGED <<waiterRest, status, exitCode, rootfs, jobDir, outCreated, proc, statVars, boxVars, tailVars, regVars>>

\* ================================================================ Status
\* Status(): j.status.Get() ...
StatusGet ==
  /\ started = "ok"
  /\ qpc = "idle"
  /\ qst' = Get(status)
  /\ qpc' = "load"
  /\ UNCHANGED <<jobVars, obs, boxVars, tailVars, regVars>>

\* ... int(atomic.LoadInt32(&j.exitCode)), and Status returns the pair.
StatusLoad ==
  /\ qpc = "load"
  /\ obs' = [st |-> qst, ec |-> exitCode]
  /\ qpc' = "idle"
  /\ UNCHANGED <<jobVars, qst, boxVars, tailVars, regVars>>

\* ================================================================ Output
\* Output(): j.outputWatcher() installs a watcher on outFile, os.Open(j.outFile)
\* opens it at offset 0, the tailer goroutine starts and Output returns
\* (outChan, cancel).
Output(t) ==
  /\ started = "ok"
  /\ tpc[t] = "none"
  /\ tpc' = [tpc EXCEPT ![t] = "read"]
  /\ toff' = [toff EXCEPT ![t] = 0]
  /\ readOnceMore' = [readOnceMore EXCEPT ![t] = TRUE]
  /\ UNCHANGED <<jobVars, statVars, boxVars, regVars, delivered, events, canceled, fired,
                 userCanceled, receiving, tfailed>>

\* Output() returns an error: fsnotify.NewWatcher fails ("watcher": nothing was
\* opened), watcher.Add fails ("add": outputWatcher returns with its new watcher
\* not closed), or os.Open fails ("open": Output returns with the watcher, now
\* watching outFile, not closed).  No goroutine is started, no cancel returned.
OutputErrors == {"watcher", "add", "open"}
ErrPc(err) == CASE err = "watcher" -> "errWatcher"
                [] err = "add" -> "errAdd"
                [] err = "open" -> "errOpen"

OutputFail(t, err) ==
  /\ started = "ok"
  /\ tpc[t] = "none"
  /\ tpc' = [tpc EXCEPT ![t] = ErrPc(err)]
  /\ UNCHANGED <<jobVars, statVars, boxVars, regVars, toff, delivered, events, readOnceMore,
                 canceled, fired, userCanceled, receiving, tfailed>>

\* The resources of an Output() call, by where the call or its goroutine is:
\* the watcher is open from NewWatcher to the goroutine's deferred
\* watcher.Close(), the file handle from os.Open to the deferred f.Close().
TailerWatcherOpen(t) == tpc[t] \in {"read", "send", "select", "errAdd", "errOpen"}
TailerFileOpen(t) == tpc[t] \in {"read", "send", "select"}

\* The cancel closure without its Once: every invocation closes the channel.
cancelNoOnce(t) ==
  /\ canceled' = [canceled EXCEPT ![t] = TRUE]
  /\ fired' = [fired EXCEPT ![t] = @ + 1]

\* cancel = func() { cancelOnce.Do(func() { close(canceled) }) }: the first
\* invocation closes the channel canceled, a later one does nothing.
cancel(t) ==
  /\ canceled' = [canceled EXCEPT ![t] = TRUE]
  /\ fired' = [fired EXCEPT ![t] = IF canceled[t] THEN @ ELSE @ + 1]

\* The deferred calls of the tailer goroutine: watcher.Close() (its queued events
\* are dropped), f.Close(), cancel(), close(outChan).
TExit(t) ==
  /\ tpc' = [tpc EXCEPT ![t] = "closed"]
  /\ events' = [events EXCEPT ![t] = FALSE]
  /\ cancel(t)

\* A read that ignores the handle's offset and starts at the head of the file.
ReadAtZero(off) == SubSeq(outFile, 1, Min(BufSize, Len(outFile)))

\* What f.Read(buf) returns at offset off: up to len(buf) bytes of the file.
ReadAt(off) == SubSeq(outFile, off + 1, off + Min(BufSize, Len(outFile) - off))

\* A tailer that returns when it reaches the end of the file.
TReadEOFReturn(t) ==
  /\ tpc[t] = "read"
  /\ LET chunk == ReadAt(toff[t]) IN
       IF Len(chunk) > 0
         THEN /\ delivered' = [delivered EXCEPT ![t] = @ \o chunk]
              /\ toff' = [toff EXCEPT ![t] = @ + Len(chunk)]
              /\ UNCHANGED <<tpc, events, canceled, fired>>
         ELSE /\ TExit(t)
              /\ UNCHANGED <<delivered, toff>>
  /\ UNCHANGED <<jobVars, statVars, boxVars, regVars, readOnceMore,
                 userCanceled, receiving, tfailed>>

\* n, err := f.Read(buf).  With n > 0 the chunk is copied out and sent on outChan,
\* where the consumer receives it, and the loop continues; (0, io.EOF) at the end
\* of the file leads to the select.
TRead(t) ==
  /\ tpc[t] = "read"
  /\ LET chunk == ReadAt(toff[t]) IN
       IF Len(chunk) > 0
         THEN /\ delivered' = [delivered EXCEPT ![t] = @ \o chunk]
              /\ toff' = [toff EXCEPT ![t] = @ + Len(chunk)]
              /\ UNCHANGED tpc
         ELSE /\ tpc' = [tpc EXCEPT ![t] = "select"]
              /\ UNCHANGED <<delivered, toff>>
  /\ UNCHANGED <<jobVars, statVars, boxVars, regVars, events, readOnceMore, canceled, fired,
                 userCanceled, receiving, tfailed>>

\* f.Read fails with an error other than io.EOF: the tailer logs it and returns.
TReadError(t) ==
  /\ tpc[t] = "read"
  /\ tfailed' = [tfailed EXCEPT ![t] = TRUE]
  /\ TExit(t)
  /\ UNCHANGED <<jobVars, statVars, boxVars, regVars, toff, delivered, readOnceMore,
                 userCanceled, receiving>>

\* A tailer that returns on a modification event instead of reading again.
TSelectEventReturn(t) ==
  /\ tpc[t] = "select"
  /\ events[t]
  /\ TExit(t)
  /\ UNCHANGED <<jobVars, statVars, boxVars, regVars, toff, delivered, readOnceMore,
                 userCanceled, receiving, tfailed>>

\* case _, ok := <-watcher.Events: a queued modification event restarts the read.
TSelectEvent(t) ==
  /\ tpc[t] = "select"
  /\ events[t]
  /\ events' = [events EXCEPT ![t] = FALSE]
  /\ tpc' = [tpc EXCEPT ![t] = "read"]
  /\ UNCHANGED <<jobVars, statVars, boxVars, regVars, toff, delivered, readOnceMore,
                 canceled, fired, userCanceled, receiving, tfailed>>

\* The watcher's Events channel is shut down, or case err := <-watcher.Errors.
TSelectWatchErr(t) ==
  /\ tpc[t] = "select"
  /\ tfailed' = [tfailed EXCEPT ![t] = TRUE]
  /\ TExit(t)
  /\ UNCHANGED <<jobVars, statVars, boxVars, regVars, toff, delivered, readOnceMore,
                 userCanceled, receiving>>

\* case <-canceled
TSelectCanceled(t) ==
  /\ tpc[t] = "select"
  /\ canceled[t]
  /\ TExit(t)
  /\ UNCHANGED <<jobVars, statVars, boxVars, regVars, toff, delivered, readOnceMore,
                 userCanceled, receiving, tfailed>>

\* The select without the readOnceMore hop: the tailer returns on writer-done.
TSelectDoneNoReread(t) ==
  /\ tpc[t] = "select"
  /\ outputWriterDone
  /\ TExit(t)
  /\ UNCHANGED <<jobVars, statVars, boxVars, regVars, toff, delivered, readOnceMore,
                 userCanceled, receiving, tfailed>>

\* A select that goes back to reading on every writer-done.
TSelectDoneAlwaysReread(t) ==
  /\ tpc[t] = "select"
  /\ outputWriterDone
  /\ readOnceMore' = [readOnceMore EXCEPT ![t] = FALSE]
  /\ tpc' = [tpc EXCEPT ![t] = "read"]
  /\ UNCHANGED <<canceled, fired, events>>
  /\ UNCHANGED <<jobVars, statVars, boxVars, regVars, toff, delivered, userCanceled, receiving, tfailed>>

\* case <-j.outputWriterDone: read once more, then return.
TSelectDone(t) ==
  /\ tpc[t] = "select"
  /\ outputWriterDone
  /\ IF readOnceMore[t]
       THEN /\ readOnceMore' = [readOnceMore EXCEPT ![t] = FALSE]
            /\ tpc' = [tpc EXCEPT ![t] = "read"]
            /\ UNCHANGED <<canceled, fired, events>>
       ELSE /\ TExit(t)
            /\ UNCHANGED readOnceMore
  /\ UNCHANGED <<jobVars, statVars, boxVars, regVars, toff, delivered, userCanceled, receiving, tfailed>>

\* The caller holds the cancel func of an Output() call that returned one.
HasCancel(t) == tpc[t] \notin {"none", "errWatcher", "errAdd", "errOpen"}

\* A cancel that reaches every tailer of the job.
CancelAll(t) ==
  /\ HasCancel(t)
  /\ canceled' = [u \in Tailers |-> TRUE]
  /\ fired' = [u \in Tailers |-> IF canceled[u] THEN fired[u] ELSE fired[u] + 1]
  /\ userCanceled' = [userCanceled EXCEPT ![t] = TRUE]
  /\ UNCHANGED <<jobVars, statVars, boxVars, regVars, tpc, toff, delivered, events,
                 readOnceMore, tfailed, receiving>>

\* The caller invokes the cancel func Output returned, and goes on receiving.
Cancel(t) ==
  /\ HasCancel(t)
  /\ cancel(t)
  /\ userCanceled' = [userCanceled EXCEPT ![t] = TRUE]
  /\ UNCHANGED <<jobVars, statVars, boxVars, regVars, tpc, toff, delivered, events,
                 readOnceMore, tfailed, receiving>>

\* The consumer of runnerServer.Output: on ctx.Done() (the peer disconnected), or
\* when strSrv.Send fails, the handler returns, which stops its receiving from
\* the out channel, and its deferred cancel() runs.
Disconnect(t) ==
  /\ HasCancel(t)
  /\ receiving[t]
  /\ receiving' = [receiving EXCEPT ![t] = FALSE]
  /\ cancel(t)
  /\ userCanceled' = [userCanceled EXCEPT ![t] = TRUE]
  /\ UNCHANGED <<jobVars, statVars, boxVars, regVars, tpc, toff, delivered, events,
                 readOnceMore, tfailed>>

\* The tailer's loop with the send as a step of its own, for a consumer that may
\* stop receiving.  n, err := f.Read(buf): with n > 0 the tailer goes on to the
\* send, at the end of the file to the select.
TReadBuf(t) ==
  /\ tpc[t] = "read"
  /\ LET chunk == ReadAt(toff[t]) IN
       IF Len(chunk) > 0
         THEN /\ toff' = [toff EXCEPT ![t] = @ + Len(chunk)]
              /\ tpc' = [tpc EXCEPT ![t] = "send"]
         ELSE /\ tpc' = [tpc EXCEPT ![t] = "select"]
              /\ UNCHANGED toff
  /\ UNCHANGED <<jobVars, statVars, boxVars, regVars, delivered, events, readOnceMore,
                 canceled, fired, userCanceled, receiving, tfailed>>

\* outChan <- o: the channel is unbuffered, so the send completes when the
\* consumer receives; the chunk is what was read since the last send.
TSend(t) ==
  /\ tpc[t] = "send"
  /\ receiving[t]
  /\ delivered' = [delivered EXCEPT
                     ![t] = @ \o SubSeq(outFile, Len(@) + 1, toff[t])]
  /\ tpc' = [tpc EXCEPT ![t] = "read"]
  /\ UNCHANGED <<jobVars, statVars, boxVars, regVars, toff, events, readOnceMore,
                 canceled, fired, userCanceled, receiving, tfailed>>

\* ============================================== the registry and the RPCs
\* A Set that replaces the table by the new entry.
JobsSetReplace(tbl, key, job) == [k \in {key} |-> job]

\* safeJobs.Set(key, job)
JobsSet(tbl, key, job) ==
  [k \in DOMAIN tbl \cup {key} |-> IF k = key THEN job ELSE tbl[k]]

\* safeJobs.Get(key): (job, ok)
JobsGet(tbl, key) ==
  IF key \in DOMAIN tbl THEN [job |-> tbl[key], ok |-> TRUE]
                        ELSE [job |-> 0, ok |-> FALSE]

\* A job as the registry sees it: its id and its owner.
NewJob(id, cn) == [id |-> id, cn |-> cn]

\* The registry key of the handlers: j.ID()+cn, req.JobId+cn.
Key(id, cn) == id \o cn

\* getClientCN without the check of the Common Name.
getClientCNNoCheck(peerCN) == [cn |-> peerCN, err |-> FALSE]

\* getClientCN(ctx): the Common Name of the verified peer certificate, an error
\* when it is empty.
getClientCN(peerCN) == [cn |-> peerCN, err |-> (peerCN = <<>>)]

\* generateJobID(): random bytes, hex-encoded; an id is taken to be fresh.
FreshIds == StringsOfLen(IdLen) \ {jobs[i].id : i \in DOMAIN jobs}

\* Whether lib.StartJob(config) returns an error: on an empty command, or when
\* one of its steps fails (see StartJob).
StartJobFails(command, fail) == command = "" \/ fail # "none"

\* A Start handler that registers the job id before it looks at StartJob's error.
RpcStartRegisterFirst(peerCN, command, fail) ==
  /\ Len(jobs) < MaxJobs
  /\ LET c == getClientCN(peerCN) IN
       IF c.err
         THEN /\ rpc' = [op |-> "Start", cn |-> peerCN, jobId |-> <<>>,
                         code |-> "Unauthenticated", job |-> 0]
              /\ UNCHANGED <<table, jobs>>
       ELSE \E id \in FreshIds :
              /\ table' = JobsSet(table, Key(id, c.cn), Len(jobs) + 1)
              /\ IF StartJobFails(command, fail)
                   THEN /\ rpc' = [op |-> "Start", cn |-> peerCN, jobId |-> <<>>,
                                   code |-> "Unknown", job |-> 0]
                        /\ UNCHANGED jobs
                   ELSE /\ jobs' = Append(jobs, NewJob(id, c.cn))
                        /\ rpc' = [op |-> "Start", cn |-> peerCN, jobId |-> id,
                                   code |-> "OK", job |-> Len(jobs) + 1]
  /\ UNCHANGED <<jobVars, statVars, boxVars, tailVars>>

\* runnerServer.Start: the caller's identity, lib.StartJob, s.jobs.Set.
RpcStart(peerCN, command, fail) ==
  /\ Len(jobs) < MaxJobs
  /\ LET c == getClientCN(peerCN) IN
       IF c.err
         THEN /\ rpc' = [op |-> "Start", cn |-> peerCN, jobId |-> <<>>,
                         code |-> "Unauthenticated", job |-> 0]
              /\ UNCHANGED <<table, jobs>>
       ELSE IF StartJobFails(command, fail)
         THEN /\ rpc' = [op |-> "Start", cn |-> peerCN, jobId |-> <<>>,
                         code |-> "Unknown", job |-> 0]
              /\ UNCHANGED <<table, jobs>>
       ELSE \E id \in FreshIds :
              /\ jobs' = Append(jobs, NewJob(id, c.cn))
              /\ table' = JobsSet(table, Key(id, c.cn), Len(jobs) + 1)
              /\ rpc' = [op |-> "Start", cn |-> peerCN, jobId |-> id,
                         code |-> "OK", job |-> Len(jobs) + 1]
  /\ UNCHANGED <<jobVars, statVars, boxVars, tailVars>>

\* The head of runnerServer.Stop / Status / Output: the caller's identity, then
\* s.jobs.Get(req.JobId + cn); the handler goes on with the job it found.
Lookup(op, peerCN, jobId) ==
  LET c == getClientCN(peerCN)
      r == JobsGet(table, Key(jobId, c.cn))
  IN  IF c.err
        THEN [op |-> op, cn |-> peerCN, jobId |-> jobId,
              code |-> "Unauthenticated", job |-> 0]
      ELSE IF ~r.ok
        THEN [op |-> op, cn |-> peerCN, jobId |-> jobId,
              code |-> "PermissionDenied", job |-> 0]
      ELSE [op |-> op, cn |-> peerCN, jobId |-> jobId, code |-> "OK", job |-> r.job]

\* A Stop handler that, when the key is not found, goes on with the first job of
\* the registry.
RpcStopAnyJob(peerCN, jobId) ==
  LET r == Lookup("Stop", peerCN, jobId) IN
    /\ rpc' = IF r.code = "PermissionDenied" /\ jobs # <<>>
                THEN [r EXCEPT !.job = 1]
                ELSE r
    /\ UNCHANGED <<table, jobs, jobVars, statVars, boxVars, tailVars>>

\* runnerServer.Stop: the lookup, then j.Stop() and j.Status() on the job found;
\* rpc.job is the job the handler has called, 0 when it has called none.
RpcStop(peerCN, jobId) ==
  /\ rpc' = Lookup("Stop", peerCN, jobId)
  /\ UNCHANGED <<table, jobs, jobVars, statVars, boxVars, tailVars>>

\* runnerServer.Status: the lookup, then j.Status() on the job found.
RpcStatus(peerCN, jobId) ==
  /\ rpc' = Lookup("Status", peerCN, jobId)
  /\ UNCHANGED <<table, jobs, jobVars, statVars, boxVars, tailVars>>

\* runnerServer.Output: the lookup, then j.Output() on the job found.
RpcOutput(peerCN, jobId) ==
  /\ rpc' = Lookup("Output", peerCN, jobId)
  /\ UNCHANGED <<table, jobs, jobVars, statVars, boxVars, tailVars>>

\* ========================================================= specifications
WriterStep == WriterCopy \/ WriterCloseFile \/ WriterSignalDone \/ WriterWgDone

WaiterStep ==
  \/ WaiterStart \/ WaiterSelectTimer \/ WaiterSelectDone \/ WaiterWaitDone
  \/ WaiterCmdWait \/ WaiterUpdateIf \/ WaiterStoreExit \/ WaiterDeleteRootFS
  \/ WaiterWgDone

\* The job's lifecycle: one job, two concurrent Stop callers, the timeout.
Next ==
  \/ \E c \in Commands, t \in Timeouts, f \in StartFailures : StartJob(c, t, f)
  \/ \E fd \in {1, 2} : ChildWrite(fd)
  \/ \E code \in ExitCodes : ChildExit(code)
  \/ TimerFire
  \/ WriterStep
  \/ WaiterStep
  \/ \E k \in Killers : KillEnter(k) \/ KillSkip(k) \/ KillGet(k) \/ KillSig(k) \/ KillSet(k)
  \/ \E s \in Stoppers : StopCall(s) \/ StopWait(s)

Spec == Init /\ [][Next]_vars

\* The lifecycle of one job on a server that starts other jobs meanwhile.
NextTwoJobs == Next \/ OtherJobStart

SpecTwoJobs == Init /\ [][NextTwoJobs]_vars

\* The same lifecycle with the scheduling the Go runtime gives: a goroutine that
\* can take a step (the writer, the waiter, a caller inside kill) eventually
\* takes it.  The child, the timer and the Stop callers are free to do nothing.
KillStep(k) == KillEnter(k) \/ KillSkip(k) \/ KillGet(k) \/ KillSig(k) \/ KillSet(k)

SpecLive ==
  /\ Spec
  /\ WF_vars(WriterStep)
  /\ WF_vars(WaiterStep)
  /\ \A k \in Killers : WF_vars(KillStep(k))

\* The lifecycle with its logged failures: a failed copy in the writer, a failed
\* removal of the rootfs tree in the waiter; one Stop caller.  Scheduling as in
\* SpecLive.
NextFail ==
  \/ \E c \in Commands, t \in Timeouts, f \in StartFailures : StartJob(c, t, f)
  \/ \E fd \in {1, 2} : ChildWrite(fd)
  \/ \E code \in ExitCodes : ChildExit(code)
  \/ TimerFire
  \/ WriterStep \/ WriterCopyFail
  \/ WaiterStep \/ WaiterDeleteRootFSFail
  \/ \E k \in {"s1", "waiter"} :
        KillEnter(k) \/ KillSkip(k) \/ KillGet(k) \/ KillSig(k) \/ KillSet(k)
  \/ StopCall("s1") \/ StopWait("s1")

SpecFail ==
  /\ Init /\ [][NextFail]_vars
  /\ WF_vars(WriterStep)
  /\ WF_vars(WaiterStep \/ WaiterDeleteRootFSFail)
  /\ \A k \in {"s1", "waiter"} : WF_vars(KillStep(k))

\* The same with a SIGKILL syscall that may fail.
NextKillFail == NextFail \/ \E k \in {"s1", "waiter"} : KillSigFail(k)

SpecKillFail ==
  /\ Init /\ [][NextKillFail]_vars
  /\ WF_vars(WriterStep)
  /\ WF_vars(WaiterStep \/ WaiterDeleteRootFSFail)
  /\ \A k \in {"s1", "waiter"} : WF_vars(KillStep(k) \/ KillSigFail(k))

\* The lifecycle with the child's sandbox entry in place of a child that is
\* the command from its first step: one Stop caller, the timeout.
NextBox ==
  \/ \E c \in Commands, t \in Timeouts, f \in StartFailures : StartJob(c, t, f)
  \/ \E ok \in BOOLEAN : BoxStep(ok)
  \/ BoxExec
  \/ \E fd \in {1, 2} : BoxChildWrite(fd)
  \/ \E code \in ExitCodes : BoxChildExit(code)
  \/ TimerFire
  \/ WriterStep
  \/ WaiterStep
  \/ \E k \in {"s1", "waiter"} : KillStep(k)
  \/ StopCall("s1") \/ StopWait("s1")

SpecBox == Init /\ [][NextBox]_vars

\* Status() against the lifecycle: one Stop caller, the timeout, one Status caller.
NextStatus ==
  \/ \E c \in Commands, t \in Timeouts, f \in StartFailures : StartJob(c, t, f)
  \/ \E fd \in {1, 2} : ChildWrite(fd)
  \/ \E code \in ExitCodes : ChildExit(code)
  \/ TimerFire
  \/ WriterStep
  \/ WaiterStep
  \/ \E k \in {"s1", "waiter"} :
        KillEnter(k) \/ KillSkip(k) \/ KillGet(k) \/ KillSig(k) \/ KillSet(k)
  \/ StopCall("s1") \/ StopWait("s1")
  \/ StatusGet \/ StatusLoad

SpecStatus == Init /\ [][NextStatus]_vars

\* The output fan-out: one job with a timeout whose child writes to stdout and
\* exits with status 0, and two Output() tailers with their consumers.
NextOut ==
  \/ \E c \in Commands, t \in Timeouts, f \in StartFailures : StartJob(c, t, f)
  \/ ChildWrite(1)
  \/ ChildExit(0)
  \/ TimerFire
  \/ WriterStep
  \/ WaiterStep
  \/ KillEnter("waiter") \/ KillGet("waiter") \/ KillSig("waiter") \/ KillSet("waiter")
  \/ \E t \in Tailers :
        \/ Output(t)
        \/ TRead(t) \/ TReadError(t)
        \/ TSelectEvent(t) \/ TSelectWatchErr(t) \/ TSelectCanceled(t) \/ TSelectDone(t)
        \/ Cancel(t)

SpecOut == Init /\ [][NextOut]_vars

\* Output of a killed job: the child writes to stdout until it is killed, by the
\* one Stop caller or by the timeout, and two Output() tailers read to the end.
NextKillOut ==
  \/ \E c \in Commands, t \in Timeouts, f \in StartFailures : StartJob(c, t, f)
  \/ ChildWrite(1)
  \/ TimerFire
  \/ WriterStep
  \/ WaiterStep
  \/ \E k \in {"s1", "waiter"} : KillStep(k)
  \/ StopCall("s1") \/ StopWait("s1")
  \/ \E t \in Tailers :
        Output(t) \/ TRead(t) \/ TSelectEvent(t) \/ TSelectDone(t)

SpecKillOut == Init /\ [][NextKillOut]_vars

\* Output() calls that may fail, on a job without a timeout whose child writes
\* to stdout and exits: two callers, with cancel and the tailer's own errors.
NextOutFail ==
  \/ \E c \in Commands, f \in StartFailures : StartJob(c, 0, f)
  \/ ChildWrite(1)
  \/ ChildExit(0)
  \/ WriterStep
  \/ WaiterStart \/ WaiterWaitDone \/ WaiterCmdWait \/ WaiterUpdateIf
  \/ WaiterStoreExit \/ WaiterDeleteRootFS \/ WaiterWgDone
  \/ \E t \in Tailers :
        \/ Output(t)
        \/ \E e \in OutputErrors : OutputFail(t, e)
        \/ TRead(t) \/ TReadError(t)
        \/ TSelectEvent(t) \/ TSelectWatchErr(t) \/ TSelectCanceled(t) \/ TSelectDone(t)
        \/ Cancel(t)

SpecOutFail == Init /\ [][NextOutFail]_vars

\* One client that works in sequence, as the integration tests do: it calls
\* Status, and once Status has reported Completed or TimedOut it may call Stop.
ClientStatusGet == pc["s1"] = "idle" /\ StatusGet
ClientStatusLoad == StatusLoad
ClientStop ==
  /\ qpc = "idle"
  /\ obs.st \in {StatusCompleted, StatusTimedOut}
  /\ StopCall("s1")

NextStopRpc ==
  \/ \E c \in Commands, t \in Timeouts, f \in StartFailures : StartJob(c, t, f)
  \/ ChildWrite(1)
  \/ \E code \in ExitCodes : ChildExit(code)
  \/ TimerFire
  \/ WriterStep
  \/ WaiterStep
  \/ \E k \in {"s1", "waiter"} : KillStep(k)
  \/ ClientStatusGet \/ ClientStatusLoad
  \/ ClientStop \/ StopWait("s1")

SpecStopRpc == Init /\ [][NextStopRpc]_vars

\* Cancellation: one job without a timeout, and one Output() tailer whose
\* consumer may cancel and go on receiving, or disconnect.  The goroutines are
\* scheduled fairly; the child and the consumer are free to do nothing.
TailerStep(t) ==
  \/ TReadBuf(t) \/ TSend(t)
  \/ TSelectEvent(t) \/ TSelectCanceled(t) \/ TSelectDone(t)

NextCancel ==
  \/ \E c \in Commands, f \in StartFailures : StartJob(c, 0, f)
  \/ ChildWrite(1)
  \/ ChildExit(0)
  \/ WriterStep
  \/ WaiterStart \/ WaiterWaitDone \/ WaiterCmdWait \/ WaiterUpdateIf
  \/ WaiterStoreExit \/ WaiterDeleteRootFS \/ WaiterWgDone
  \/ Output("t1")
  \/ TailerStep("t1")
  \/ Cancel("t1")
  \/ Disconnect("t1")

SpecCancel ==
  /\ Init /\ [][NextCancel]_vars
  /\ WF_vars(WriterStep)
  /\ WF_vars(WaiterStep)
  /\ WF_vars(TailerStep("t1"))

\* Callers that wait for the job: s1 calls Stop, s2 calls Wait, while the
\* timeout may expire, the child may exit, and a tailer reads whose consumer may
\* disconnect.  The job's goroutines and the waiting callers are scheduled
\* fairly; the tailer is not.
DrainChildWrite == wrote < MaxDrainOut /\ ChildWrite(1)

NextDrain ==
  \/ \E c \in Commands, t \in Timeouts, f \in StartFailures : StartJob(c, t, f)
  \/ DrainChildWrite
  \/ ChildExit(0)
  \/ TimerFire
  \/ WriterStep
  \/ WaiterStep
  \/ \E k \in {"s1", "waiter"} : KillStep(k)
  \/ StopCall("s1") \/ WaitCall("s2")
  \/ \E s \in Stoppers : StopWait(s)
  \/ Output("t1") \/ TReadBuf("t1") \/ TSend("t1") \/ TSelectDone("t1")
  \/ Disconnect("t1")

SpecDrain ==
  /\ Init /\ [][NextDrain]_vars
  /\ WF_vars(WriterStep)
  /\ WF_vars(WaiterStep)
  /\ \A k \in {"s1", "waiter"} : WF_vars(KillStep(k))
  /\ \A s \in Stoppers : WF_vars(StopWait(s))

\* StartJob in its steps against the child, the writer, the waiter, and the
\* callers who hold the job once StartJob has returned it: a Stop caller and a
\* Status caller.
NextStart ==
  \/ \E c \in Commands, t \in Timeouts : StartNew(c, t)
  \/ StartRootFS \/ StartFork \/ StartSetRunning \/ StartGoWaiter
  \/ ChildWrite(1)
  \/ \E code \in ExitCodes : ChildExit(code)
  \/ TimerFire
  \/ WriterStep
  \/ WaiterStep
  \/ \E k \in {"s1", "waiter"} : KillStep(k)
  \/ StopCall("s1") \/ StopWait("s1")
  \/ StatusGet \/ StatusLoad

SpecStart == Init /\ [][NextStart]_vars

\* The ownership registry: clients start jobs and address them by job_id strings.
NextReg ==
  \/ \E cn \in CNs, c \in Commands, f \in StartFailures : RpcStart(cn, c, f)
  \/ \E cn \in CNs, id \in StringsUpTo(MaxReqLen) :
        RpcStop(cn, id) \/ RpcStatus(cn, id) \/ RpcOutput(cn, id)

SpecReg == Init /\ [][NextReg]_vars

\* ================================================================= claims
Drained == pc["writer"] = "done" /\ pc["waiter"] = "done"
SomeStopReturned == \E s \in Stoppers : stops[s] >= 1
LookupOps == {"Stop", "Status", "Output"}

\* C1: a job's status leaves Running exactly once: once it is Completed, Stopped
\* or TimedOut it never changes to another value.
C1_TerminalStatusNeverChanges ==
  [][(status \in Terminal) => (status' = status)]_vars

\* C2: no Stop, Status or Output request resolves to a job that another owner
\* started: a request that finds a job finds one its caller started.
C2_OwnerIsolation ==
  (rpc.op \in LookupOps /\ rpc.code = "OK") => jobs[rpc.job].cn = rpc.cn

\* C3: for a job whose child exits on its own, a tailer that was not cancelled and
\* met no watcher or read error has, when its stream is closed, delivered exactly
\* the bytes of the output file, which the writer has finished.
C3_FullStream ==
  \A t \in Tailers :
    (tpc[t] = "closed" /\ ~userCanceled[t] /\ ~tfailed[t] /\ proc.how = "exit")
      => (outputWriterDone /\ ~fileOpen /\ delivered[t] = outFile)

C3_Witness ==
  /\ \A t \in Tailers : tpc[t] = "closed" /\ ~userCanceled[t] /\ ~tfailed[t]
  /\ proc.how = "exit"
  /\ Len(outFile) >= 2
  /\ \A t \in Tailers : delivered[t] = outFile

\* C4: at every moment, what a tailer has delivered is a prefix of what the
\* writer has appended to the output file.
C4_DeliveredIsPrefix == \A t \in Tailers : IsPrefix(delivered[t], outFile)

C4_Witness ==
  \E t \in Tailers :
    /\ tpc[t] = "read"
    /\ Len(delivered[t]) >= 1
    /\ Len(delivered[t]) < Len(outFile)

\* C5: a Status() call that returned a terminal status returned the job's final
\* exit code (and its final status).
C5_TerminalStatusCarriesFinalExitCode ==
  (obs.st \in Terminal /\ Drained) => (obs.ec = exitCode /\ obs.st = status)

C7_StopIdempotent ==
  [][SomeStopReturned =>
       (/\ sigkills' = sigkills
        /\ status' = status
        /\ exitCode' = exitCode
        /\ outFile' = outFile)]_vars

C7_Witness ==
  /\ stops["s1"] >= 2
  /\ stops["s2"] >= 1
  /\ sigkills = 1

\* C8: when a Stop() call has returned, the status is terminal, the writer has
\* closed the output file and signaled writer-done, the waiter has reaped the
\* child and has stored the exit code.
C8_StopReturnsAfterDrain ==
  SomeStopReturned =>
    /\ status \in Terminal
    /\ ~fileOpen
    /\ outputWriterDone
    /\ proc.state = "reaped"
    /\ pc["waiter"] = "done"
    /\ exitCode = ProcessStateExitCode(proc)

C8_Witness ==
  /\ stops["s2"] >= 1
  /\ killer = "s2"
  /\ status = StatusStopped
  /\ exitCode = -1

\* C9: a drained job whose status is Stopped has exit code -1.
C9_StoppedExitCode == (Drained /\ status = StatusStopped) => exitCode = -1

\* C10: a drained job whose status is TimedOut has exit code -1.
C10_TimedOutExitCode == (Drained /\ status = StatusTimedOut) => exitCode = -1

\* No Stop() call has been made so far.
NoStopInitiated == \A s \in Stoppers : pc[s] = "idle" /\ stops[s] = 0

\* C11: when the child exits on its own and no kill (Stop or timeout) found the
\* job Running, then once the bookkeeping has drained the status is Completed and
\* the exit code is the child's exit status.
C11_CompletedCarriesChildExit ==
  (Drained /\ proc.how = "exit" /\ killer = "none")
    => (status = StatusCompleted /\ exitCode = proc.code)

C11_Witness ==
  /\ Drained
  /\ proc.how = "exit"
  /\ proc.code = 1
  /\ killer = "none"
  /\ status = StatusCompleted
  /\ exitCode = 1

\* C13: a job started with timeout 0 never becomes TimedOut, the only SIGKILL it
\* can get is Stop's, and while no Stop has been called it is Running as long as
\* the child has not ended and Completed once it is drained.
C13_NoTimeoutWithoutTimer ==
  (started = "ok" /\ config.timeout = 0) =>
    /\ status # StatusTimedOut
    /\ killer # "waiter"
    /\ (sigkills > 0) => (killer \in Stoppers)
    /\ NoStopInitiated =>
         /\ sigkills = 0
         /\ status \in {StatusRunning, StatusCompleted}
         /\ (proc.state # "reaped") => (status = StatusRunning)

C13_Witness ==
  /\ started = "ok"
  /\ config.timeout = 0
  /\ NoStopInitiated
  /\ Drained
  /\ status = StatusCompleted
  /\ wrote = MaxOut

C14_CancelledTailerExits ==
  \A t \in Tailers : userCanceled[t] ~> (tpc[t] = "closed")

\* C15: for one Output() call, however often cancel is invoked, by the caller or
\* by the exiting tailer, the channel canceled is closed exactly once and the
\* stream is closed once and stays closed; an invocation after the first changes
\* nothing.
C15_CancelIdempotent ==
  /\ [](\A t \in Tailers :
          /\ fired[t] <= 1
          /\ canceled[t] <=> (fired[t] = 1)
          /\ (tpc[t] = "closed") => (fired[t] = 1))
  /\ [][\A t \in Tailers :
          /\ canceled[t] => (canceled'[t] /\ fired'[t] = fired[t])
          /\ (tpc[t] = "closed") => (tpc'[t] = "closed" /\ delivered'[t] = delivered[t])
       ]_vars

C15_Witness ==
  /\ tpc["t1"] = "closed"
  /\ userCanceled["t1"]
  /\ ~receiving["t1"]
  /\ fired["t1"] = 1
  /\ Len(delivered["t1"]) >= 1

\* The step is an invocation of cancel on tailer t by its caller.
CancelStepOf(t) == userCanceled'[t] /\ tpc'[t] = tpc[t] /\ events'[t] = events[t]

\* C16: cancelling one tailer leaves the job as it is (status, output file, writer
\* and waiter) and leaves every other tailer as it is, and a tailer that was not
\* cancelled itself still delivers the whole file whatever was done to the other.
C16_CancelTouchesOneTailer ==
  /\ [](\A t \in Tailers :
          (tpc[t] = "closed" /\ ~userCanceled[t] /\ ~tfailed[t]
             /\ \E u \in Tailers \ {t} : userCanceled[u])
            => (outputWriterDone /\ delivered[t] = outFile))
  /\ [][\A t \in Tailers :
          (CancelStepOf(t) /\ canceled'[t] # canceled[t]) =>
            /\ jobVars' = jobVars
            /\ \A u \in Tailers \ {t} :
                 /\ canceled'[u] = canceled[u]
                 /\ tpc'[u] = tpc[u]
                 /\ toff'[u] = toff[u]
                 /\ delivered'[u] = delivered[u]
                 /\ events'[u] = events[u]
       ]_vars

C16_Witness ==
  /\ userCanceled["t1"]
  /\ tpc["t1"] = "closed"
  /\ delivered["t1"] # outFile
  /\ ~userCanceled["t2"]
  /\ ~tfailed["t2"]
  /\ tpc["t2"] = "closed"
  /\ Len(outFile) = MaxOut
  /\ delivered["t2"] = outFile

\* C17: for a job killed by Stop or by the timeout, a tailer that was not
\* cancelled has, when its stream is closed, delivered exactly the final content
\* of the output file, so any two such tailers delivered identical streams.
C17_KilledOutputPreserved ==
  /\ \A t \in Tailers :
       (tpc[t] = "closed" /\ ~userCanceled[t] /\ ~tfailed[t] /\ proc.how = "signal")
         => (outputWriterDone /\ ~fileOpen /\ delivered[t] = outFile)
  /\ \A t, u \in Tailers :
       (/\ tpc[t] = "closed" /\ ~userCanceled[t] /\ ~tfailed[t]
        /\ tpc[u] = "closed" /\ ~userCanceled[u] /\ ~tfailed[u]
        /\ proc.how = "signal")
         => (delivered[t] = delivered[u])

C17_Witness ==
  /\ proc.how = "signal"
  /\ killer = "s1"
  /\ Len(outFile) = MaxOut
  /\ tpc["t1"] = "closed"
  /\ tpc["t2"] = "closed"
  /\ delivered["t1"] = outFile
  /\ delivered["t2"] = outFile

\* C19: when StartJob fails after the job id was allocated (rootfs copy, output
\* file or pipe setup, fork), nothing of the job is left: no rootfs tree, no
\* output file, no writer and no waiter goroutine.
C19_FailedStartLeavesNothing ==
  (started \in {"errRootfs", "errOutfile", "errFork"}) =>
    /\ ~rootfs
    /\ ~outCreated
    /\ pc["writer"] = "none"
    /\ pc["waiter"] = "none"

\* C20: StartJob with an empty command returns an error and no job, and has
\* created no job directory, rootfs tree, output file, child process or goroutine.
C20_EmptyCommandCreatesNothing ==
  (started = "err") =>
    /\ status = StatusNone
    /\ ~jobDir /\ ~rootfs /\ ~outCreated /\ ~fileOpen
    /\ proc = NoProc
    /\ wg = 0
    /\ pc["writer"] = "none" /\ pc["waiter"] = "none"

C20_Witness ==
  /\ started = "err"
  /\ config.command = ""
  /\ proc = NoProc

\* C18: a Start RPC either starts a job, adds exactly one registry entry, the one
\* for (new job id, caller identity), and returns that id, or returns an error
\* and leaves the registry as it was; every registry entry is a started job's.
C18_StartAtomic ==
  /\ [](\A k \in DOMAIN table :
          /\ table[k] \in DOMAIN jobs
          /\ k = Key(jobs[table[k]].id, jobs[table[k]].cn))
  /\ [][(rpc'.op = "Start" /\ rpc' # rpc) =>
          IF rpc'.code = "OK"
            THEN /\ jobs' = Append(jobs, NewJob(rpc'.jobId, rpc'.cn))
                 /\ Key(rpc'.jobId, rpc'.cn) \notin DOMAIN table
                 /\ DOMAIN table' = DOMAIN table \cup {Key(rpc'.jobId, rpc'.cn)}
                 /\ table'[Key(rpc'.jobId, rpc'.cn)] = Len(jobs')
                 /\ \A k \in DOMAIN table : table'[k] = table[k]
            ELSE table' = table /\ jobs' = jobs
       ]_vars

C18_Witness ==
  /\ rpc.op = "Start"
  /\ rpc.code = "Unknown"
  /\ Len(jobs) = 1
  /\ Cardinality(DOMAIN table) = 1

\* C21: a Stop, Status or Output request whose key, job_id + caller's Common
\* Name, is not in the registry is answered PermissionDenied, whether no job has
\* that id or another owner's job has it, and the handler calls no job (rpc.job
\* is 0) and changes nothing.
C21_UnknownKeyDenied ==
  [][(rpc' # rpc /\ rpc'.op \in LookupOps /\ rpc'.cn # <<>>
        /\ Key(rpc'.jobId, rpc'.cn) \notin DOMAIN table)
      => (/\ rpc'.code = "PermissionDenied"
          /\ rpc'.job = 0
          /\ jobs' = jobs
          /\ table' = table
          /\ jobVars' = jobVars
          /\ tailVars' = tailVars)]_vars

\* A request by another owner with the id of an existing job was denied.
C21_Witness ==
  /\ rpc.op = "Stop"
  /\ rpc.code = "PermissionDenied"
  /\ rpc.job = 0
  /\ \E i \in DOMAIN jobs : jobs[i].id = rpc.jobId /\ jobs[i].cn # rpc.cn

\* C22: an RPC received without a verified peer Common Name is answered
\* Unauthenticated and touches nothing: no job is started, looked up, stopped or
\* tailed, and the registry is as it was.
C22_NoCommonNameUnauthenticated ==
  [][(rpc' # rpc /\ rpc'.cn = <<>>)
      => (/\ rpc'.code = "Unauthenticated"
          /\ rpc'.job = 0
          /\ jobs' = jobs
          /\ table' = table
          /\ jobVars' = jobVars
          /\ tailVars' = tailVars)]_vars

C22_Witness ==
  /\ rpc.op = "Start"
  /\ rpc.cn = <<>>
  /\ rpc.code = "Unauthenticated"
  /\ Len(jobs) = 1

\* C23: a Stop that is invoked after Status has reported Completed or TimedOut
\* dispatches no SIGKILL, and when it returns the status and the exit code (what
\* the Stop RPC reports) are the ones Status reported before it.
C23_StopAfterTerminalIsNoOp ==
  [][(pc["s1"] = "wgWait" /\ pc'["s1"] = "idle")
      => (killer # "s1" /\ status' = obs.st /\ exitCode' = obs.ec)]_vars

\* C24: while the status is Running the exit code is -1, and the exit code is
\* written at most once: only by the waiter's store, over the initial -1.
C24_ExitCodeWrittenOnce ==
  /\ []((status = StatusRunning) => (exitCode = -1))
  /\ [][(pc["waiter"] # "w_storeExit" \/ started # "ok") => (exitCode' = exitCode)]_vars
  /\ [][(pc["waiter"] = "w_storeExit" /\ pc'["waiter"] # "w_storeExit")
          => (exitCode = -1 /\ pc'["waiter"] = "w_rmRootFS"
              /\ exitCode' = ProcessStateExitCode(proc))]_vars
  /\ [][(pc["waiter"] \in {"w_rmRootFS", "w_wgDone", "done"})
          => (pc'["waiter"] \in {"w_rmRootFS", "w_wgDone", "done"})]_vars

C24_Witness ==
  /\ Drained
  /\ exitCode = 1
  /\ status = StatusStopped

\* C25: the bytes of stdout and stderr are in the output file in the order in
\* which the child wrote them (byte k is the k-th byte written), a byte written
\* to stderr not having to wait for the end of stdout.
C25_FileFollowsArrivalOrder ==
  \A i, j \in DOMAIN outFile : (i < j) => (outFile[i] < outFile[j])

\* C26: no operation on this job (Stop, the timeout kill) changes another job:
\* the other job's child is never killed by this job's SIGKILL.
C26_OtherJobUntouched == other # "killed"

\* C27: writer-done is signaled once (the close never runs on a channel already
\* closed, and the signal is never taken back), only by the writer's deferred
\* close and with the output file closed; nothing is appended to the file once
\* it is signaled; and a writer whose copy has returned, with EOF or with an
\* error, goes on to signal it.
C27_WriterDone ==
  /\ [](outputWriterDone => (~fileOpen /\ pc["writer"] \in {"wgDone", "done"}))
  /\ [][(outputWriterDone' # outputWriterDone)
          => (/\ ~outputWriterDone /\ outputWriterDone'
              /\ pc["writer"] = "signalDone" /\ pc'["writer"] = "wgDone")]_vars
  /\ [][outputWriterDone => outFile' = outFile]_vars
  /\ ((pc["writer"] \notin {"none", "copy"}) ~> outputWriterDone)

\* writer-done signaled after a copy that failed before the end of stderr, with
\* bytes of the child left in a pipe
C27_Witness ==
  /\ outputWriterDone /\ mr < 3 /\ so \o se # <<>> /\ outFile # <<>>

\* C28: the child is reaped only with writer-done signaled; the reap is the
\* waiter's cmd.Wait step and no other; a reaped child stays reaped and the
\* waiter is never again at cmd.Wait, so the reap happens once.
C28_ReapAfterWriterDone ==
  /\ [](proc.state = "reaped" => outputWriterDone)
  /\ [](pc["waiter"] = "w_cmdWait" => proc.state # "reaped")
  /\ [][(proc.state # "reaped" /\ proc'.state = "reaped")
          => (/\ outputWriterDone
              /\ pc["waiter"] = "w_cmdWait" /\ pc'["waiter"] = "w_updateIf")]_vars
  /\ [][proc.state = "reaped" => proc'.state = "reaped"]_vars

\* a child killed by the timeout has been reaped, while a Stop is in progress
C28_Witness ==
  /\ proc.state = "reaped" /\ killer = "waiter" /\ sigkills > 0
  /\ status = StatusTimedOut /\ pc["s1"] # "idle"

\* C29: a started job's rootfs tree is there while its child is running or not
\* yet reaped; the tree is removed by the waiter's deleteRootFSTree step only,
\* after the reap; that step, failed or not, changes neither status nor exit
\* code; and once the child is reaped, whatever ended the job, the waiter gets
\* to attempt the removal.
C29_RootFSUntilReap ==
  /\ []((started = "ok" /\ proc.state \in {"running", "zombie"}) => rootfs)
  /\ [][(rootfs /\ ~rootfs')
          => (/\ proc.state = "reaped"
              /\ pc["waiter"] = "w_rmRootFS" /\ pc'["waiter"] = "w_wgDone")]_vars
  /\ [][(pc["waiter"] = "w_rmRootFS" /\ pc'["waiter"] # "w_rmRootFS")
          => (/\ proc.state = "reaped" /\ status' = status /\ exitCode' = exitCode
              /\ status \in Terminal)]_vars
  /\ ((proc.state = "reaped") ~> (pc["waiter"] \in {"w_wgDone", "done"}))

\* the removal has failed for a job that was stopped: the tree is still there
\* and the job reads (Stopped, -1)
C29_Witness ==
  /\ pc["waiter"] = "done" /\ rootfs /\ proc.state = "reaped"
  /\ status = StatusStopped /\ exitCode = -1

\* C30: once writer-done is signaled with the timer not yet elapsed, the waiter
\* never calls kill and the status is never TimedOut.
C30_WriterDoneFirstNoTimeout ==
  []((started = "ok" /\ config.timeout > 0 /\ outputWriterDone /\ ~timerFired)
       => [](pc["waiter"] # "kill" /\ killer # "waiter" /\ status # StatusTimedOut))

\* C31: a tailer whose stream is closed was cancelled by its caller, or met a
\* watcher error or a read error, or saw writer-done and had done its final
\* re-read; so with the writer not done, a tailer that was neither cancelled nor
\* failed is never closed.
C31_StreamClosesOnlyForCause ==
  \A t \in Tailers :
    (tpc[t] = "closed" /\ ~userCanceled[t] /\ ~tfailed[t])
      => (outputWriterDone /\ ~readOnceMore[t])

\* a tailer waits at the end of a silent running job's file, with no event
\* queued, having delivered all of it, while the other tailer has been closed
C31_Witness ==
  /\ proc.state = "running" /\ ~outputWriterDone /\ so = <<>>
  /\ tpc["t1"] = "select" /\ ~events["t1"] /\ ~canceled["t1"]
  /\ outFile # <<>> /\ delivered["t1"] = outFile
  /\ tpc["t2"] = "closed"

\* C32: a tailer at the EOF wait whose caller has invoked cancel does not go
\* back to reading and delivers nothing more, whatever else is pending.
C32_CancelledTailerReadsNoMore ==
  [][\A t \in Tailers :
       (tpc[t] = "select" /\ userCanceled[t])
         => (tpc'[t] # "read" /\ delivered'[t] = delivered[t])]_vars

\* C33 as stated: a tailer that is back at the EOF wait after its re-read does
\* not start another read pass.
C33_NoReadPassAfterReread ==
  [][\A t \in Tailers :
       (tpc[t] = "select" /\ ~readOnceMore[t]) => tpc'[t] # "read"]_vars

\* C33 as amended: a tailer that is back at the EOF wait after its re-read has
\* delivered the whole file, which is final; whatever passes it still makes
\* deliver nothing; and it goes on to exit.
C33_RereadThenExit ==
  /\ [](\A t \in Tailers :
          ((tpc[t] \in {"select", "closed"} /\ ~readOnceMore[t])
             => (outputWriterDone /\ delivered[t] = outFile)))
  /\ [][\A t \in Tailers :
          ~readOnceMore[t] /\ tpc[t] # "send" => delivered'[t] = delivered[t]]_vars
  /\ \A t \in Tailers :
        (tpc[t] = "select" /\ ~readOnceMore[t]) ~> (tpc[t] = "closed")

\* the tailer is back at the EOF wait after its re-read, with the whole file
\* delivered, and a modification event is still queued
C33_Witness ==
  /\ tpc["t1"] = "select" /\ ~readOnceMore["t1"] /\ events["t1"]
  /\ ~canceled["t1"] /\ Len(outFile) = MaxOut /\ delivered["t1"] = outFile

\* The one caller that ran kill's function has had its syscall fail: it is past
\* the syscall and no SIGKILL was delivered.
KillFailed ==
  /\ killer # "none" /\ pc[killer] \notin {"killGet", "killSig"} /\ sigkills = 0

\* C34: the caller whose kill gets to the syscall has found the job Running;
\* when the syscall has failed, kill still sets the status it was asked to set
\* and consumes the stop-once guard; no caller sends a signal afterwards; and
\* the caller goes on as after a successful kill (Stop to its wait, the waiter
\* to writer-done).
C34_KillFailureOnlyLogged ==
  /\ []((KillFailed /\ stopOnce = "done") => status = KillArg(killer))
  /\ [][(killer' # killer) => (status = StatusRunning /\ pc'[killer'] = "killSig")]_vars
  /\ [][KillFailed => (sigkills' = 0 /\ stopOnce' # "fresh")]_vars
  /\ [][(KillFailed /\ pc[killer] = "killSet" /\ pc'[killer] # "killSet")
          => (/\ status' = KillArg(killer)
              /\ stopOnce' = "done" /\ pc'[killer] = After(killer))]_vars
  /\ (KillFailed ~> (stopOnce = "done"))

\* Stop's SIGKILL has failed and the child is still running: the job reads
\* Stopped, a second Stop has skipped the consumed guard, and Stop is waiting
C34_Witness ==
  /\ KillFailed /\ killer = "s1" /\ stopOnce = "done"
  /\ status = StatusStopped /\ proc.state = "running"
  /\ pc["s1"] = "wgWait" /\ stops["s1"] = 0

\* C35: an Output() call that has ended, by its tailer's exit (the stream is
\* closed) or by returning an error, holds neither a watcher nor a file handle.
C35_OutputReleasesAll ==
  \A t \in Tailers :
    (tpc[t] \in {"closed", "errWatcher", "errAdd", "errOpen"})
      => (~TailerWatcherOpen(t) /\ ~TailerFileOpen(t))

\* C36: the setup calls are made in the order bind mount, old_root, pivot_root,
\* chdir, /proc, unmount, removal, one at a time; the command runs, writes and
\* exits only after all seven have succeeded; and after a failed call no
\* further call is made, the command is never run, and the child has exited
\* with a status other than 0.
C36_SandboxEntryInOrder ==
  /\ [](IsPrefix(sbox.done, SetupSteps))
  /\ []((sbox.phase = "exec" \/ wrote > 0) => sbox.done = SetupSteps)
  /\ []((sbox.phase = "failed")
          => (/\ Len(sbox.done) < Len(SetupSteps) /\ wrote = 0
              /\ proc.state # "running" /\ proc.how = "exit" /\ proc.code # 0))
  /\ [][sbox.phase = "failed" => sbox' = sbox /\ wrote' = wrote]_vars
  /\ [][sbox'.done # sbox.done => Len(sbox'.done) = Len(sbox.done) + 1]_vars
  /\ [][sbox.phase # "exec" /\ proc.state = "running" /\ proc'.how = "exit"
          => sbox'.phase = "failed"]_vars

\* the mount of /proc has failed after pivot_root and chdir: the job is drained
\* and reads (Completed, 1), its output is the message alone
C36_Witness ==
  /\ sbox.phase = "failed" /\ sbox.done = SubSeq(SetupSteps, 1, 4)
  /\ Drained /\ status = StatusCompleted /\ exitCode = 1 /\ outFile = <<0>>

\* C37: a caller that is inside Stop() or Wait() once the child has ended (its
\* pipes are closed) gets its return, whatever the other caller, the timer and
\* the tailer do.
C37_StopAndWaitReturn ==
  \A s \in Stoppers :
    (pc[s] # "idle" /\ proc.state # "running") ~> (pc[s] = "idle")

\* Stop, called again and again, and Wait have returned on a job the timeout
\* killed, while the tailer is stuck at its send with the consumer gone
C37_Witness ==
  /\ stops["s1"] = MaxStops /\ stops["s2"] = 1
  /\ pc["s1"] = "idle" /\ pc["s2"] = "idle"
  /\ killer = "waiter" /\ status = StatusTimedOut
  /\ tpc["t1"] = "send" /\ ~receiving["t1"]

\* C38: no SIGKILL is sent to the job's process group once the waiter has
\* reaped the child.
C38_NoSignalAfterReap ==
  [][(sigkills' > sigkills) => (proc.state # "reaped")]_vars

\* C39: a registry entry, once there, stays and keeps its job; every job Start
\* has returned is in the registry under its id and its owner; and a Stop,
\* Status or Output request by that owner with that id finds that job.
C39_RegistryOnlyGrows ==
  /\ [](\A i \in DOMAIN jobs :
          /\ Key(jobs[i].id, jobs[i].cn) \in DOMAIN table
          /\ table[Key(jobs[i].id, jobs[i].cn)] = i)
  /\ [][/\ \A k \in DOMAIN table : k \in DOMAIN table' /\ table'[k] = table[k]
        /\ \A i \in DOMAIN jobs :
             (rpc' # rpc /\ rpc'.op \in LookupOps
                /\ rpc'.cn = jobs[i].cn /\ rpc'.jobId = jobs[i].id)
               => (rpc'.code = "OK" /\ rpc'.job = i)]_vars

\* an owner has started two jobs, and its Status request for the first one
\* finds the first one
C39_Witness ==
  /\ Len(jobs) = 2 /\ jobs[1].cn = jobs[2].cn
  /\ rpc.op = "Status" /\ rpc.code = "OK" /\ rpc.job = 1
  /\ rpc.cn = jobs[1].cn /\ rpc.jobId = jobs[1].id

\* C40: what a Status() call reads and returns is Running, Completed, Stopped or
\* TimedOut; the status becomes Created only with no child forked yet; while it
\* is Created the job has not been returned, the waiter does not exist and no
\* caller is in Stop or kill; and a returned job is never Created.
C40_CreatedNeverObserved ==
  /\ [](qpc = "load" => qst \in {StatusRunning} \cup Terminal)
  /\ [](obs # NoObs => obs.st \in {StatusRunning} \cup Terminal)
  /\ [](status = StatusCreated
          => (/\ started \in {"new", "rootfs", "forked"}
              /\ pc["waiter"] = "none"
              /\ \A s \in Stoppers : pc[s] = "idle"))
  /\ [](started = "ok" => status \in {StatusRunning} \cup Terminal)
  /\ [][(status' = StatusCreated /\ status # StatusCreated) => proc'.state = "none"]_vars

\* a Status() call, made as soon as StartJob has returned, has read Running: the
\* child had written and exited while the status was still Created, and the
\* waiter has not run yet
C40_Witness ==
  /\ qpc = "load" /\ qst = StatusRunning
  /\ proc.state = "zombie" /\ outFile # <<>>
  /\ pc["waiter"] = "w_start" /\ pc["writer"] = "done"

====
